---------------------------- MODULE Spec2Model ----------------------------
(***************************************************************************)
(* FFES Sauna integration: the data coordinator (host resolution, poll    *)
(* cycle and command dispatch) in its two variants, the climate, switch,   *)
(* select and sensor adapters, and the config flow with entry setup and    *)
(* unload.                                                                 *)
(*                                                                         *)
(*   Modbus variant: src/custom_components/ffes_sauna/                     *)
(*   HTTP variant:   src/ffes_sauna/                                       *)
(*                                                                         *)
(* Every handler is one atomic action.  What the device, the network and   *)
(* the user contribute (read/write outcomes, HTTP responses, form input)   *)
(* is drawn from bounded sets.                                             *)
(***************************************************************************)
EXTENDS Integers, Sequences, FiniteSets, TLC

VARIABLES
    variant,              \* "modbus" | "http" | "setup": which code is running
    device,               \* the controller's holding registers, address -> value
    modbus_client,        \* coordinator._modbus_client: "None" | "connected" | "disconnected" | "closed"
    data,                 \* DataUpdateCoordinator.data, the published snapshot
    last_update_success,  \* DataUpdateCoordinator.last_update_success
    refresh_requested,    \* an async_request_refresh() is pending
    last,                 \* the last operation, its inputs and what it did
    ops,                  \* number of operations run so far
    faults,               \* number of faults injected so far
    flow,                 \* what the config flow's manual step last did
    entry,                \* the config entry's data, once created
    coordinator,          \* "none" | "loaded" | "not_ready" | "unloaded": the entry's coordinator
    update_interval,      \* the coordinator's update_interval, in seconds
    host,                 \* coordinator.host
    resolved_host,        \* coordinator._resolved_host, the cached resolution
    resolutions,          \* runs of _resolve_host_sync for this coordinator
    tasks                 \* the poll and the command suspended at an await

setupVars == <<flow, entry, coordinator, update_interval>>

hostVars == <<host, resolved_host, resolutions>>

vars == <<variant, device, modbus_client, data, last_update_success,
          refresh_requested, last, ops, faults, flow, entry, coordinator,
          update_interval, host, resolved_host, resolutions, tasks>>

---------------------------------------------------------------------------
(* Bounds of the model *)

\* operations (polls, commands, adapter calls) per run
MaxOps == 2
\* faults (a connect, read, write or HTTP exchange that does not end
\* normally, a dropped connection) per run
MaxFaults == 1

---------------------------------------------------------------------------
(* Python values: an int or a str (a sequence of characters) *)

IntV(n) == [t |-> "int", n |-> n, s |-> <<>>]
StrV(s) == [t |-> "str", n |-> 0, s |-> s]

Digits == <<"0", "1", "2", "3", "4", "5", "6", "7", "8", "9">>

IsDigit(c) == \E i \in 1..10 : Digits[i] = c
DigitVal(c) == (CHOOSE i \in 1..10 : Digits[i] = c) - 1

RECURSIVE ParseDigits(_, _)
ParseDigits(s, acc) ==
    IF s = <<>> THEN acc
    ELSE ParseDigits(Tail(s), acc * 10 + DigitVal(Head(s)))

\* int(value): an int is itself; a str converts when it is a non-empty run
\* of decimal digits and raises ValueError otherwise ("" and "01:00" raise).
PyInt(v) ==
    IF v.t = "int" THEN [ok |-> TRUE, n |-> v.n]
    ELSE IF v.s # <<>> /\ \A i \in 1..Len(v.s) : IsDigit(v.s[i])
         THEN [ok |-> TRUE, n |-> ParseDigits(v.s, 0)]
         ELSE [ok |-> FALSE, n |-> 0]

\* kwargs.get(key, default)
KwGet(kwargs, key, default) ==
    IF key \in DOMAIN kwargs THEN kwargs[key] ELSE default

NoKwargs == [k \in {} |-> IntV(0)]

\* None, where an argument may be absent
NoneV == [t |-> "none", n |-> 0, s |-> <<>>]

---------------------------------------------------------------------------
(* Host resolution.  A host is a str, a sequence of characters. *)

\* s.endswith(suffix)
EndsWith(s, suffix) ==
    /\ Len(s) >= Len(suffix)
    /\ SubSeq(s, Len(s) - Len(suffix) + 1, Len(s)) = suffix

DotLocal == <<".", "l", "o", "c", "a", "l">>

\* s.split("."), with cur the part being read and acc the parts read
RECURSIVE SplitDots(_, _, _)
SplitDots(s, cur, acc) ==
    IF s = <<>> THEN Append(acc, cur)
    ELSE IF Head(s) = "." THEN SplitDots(Tail(s), <<>>, Append(acc, cur))
    ELSE SplitDots(Tail(s), Append(cur, Head(s)), acc)

RECURSIVE Pow256(_)
Pow256(n) == IF n = 0 THEN 1 ELSE 256 * Pow256(n - 1)

\* socket.inet_aton(host) succeeds: one to four dot-separated decimal
\* numbers, each but the last a byte, the last filling the remaining bytes.
InetAton(s) ==
    LET parts == SplitDots(s, <<>>, <<>>)
        n == Len(parts)
        numeric(part) == part # <<>> /\ \A i \in 1..Len(part) : IsDigit(part[i])
    IN  /\ n <= 4
        /\ \A i \in 1..n : numeric(parts[i])
        /\ \A i \in 1..(n - 1) : ParseDigits(parts[i], 0) <= 255
        /\ ParseDigits(parts[n], 0) < Pow256(5 - n)

\* How socket.gethostbyname and socket.getaddrinfo can end: an address, an
\* empty result list (getaddrinfo only), socket.gaierror, or another
\* exception (a timeout, an OSError).
GetHostByNameOutcomes == {"ok", "gaierror", "error"}
GetAddrInfoOutcomes == {"ok", "empty", "gaierror", "error"}

\* the address the resolver gives for a name it can resolve
ResolvedAddress == <<"1", "0", ".", "0", ".", "0", ".", "9">>

\* mutant: a name that does not resolve is answered with no host at all
ResolveHostSync_NoFallback(h, r1, r2) ==
    IF InetAton(h) THEN [raised |-> FALSE, host |-> h, calls |-> 0]
    ELSE IF ~EndsWith(h, DotLocal) THEN [raised |-> FALSE, host |-> h, calls |-> 0]
    ELSE IF r1 = "ok" THEN [raised |-> FALSE, host |-> ResolvedAddress, calls |-> 1]
    ELSE IF r1 = "error" THEN [raised |-> TRUE, host |-> h, calls |-> 1]
    ELSE IF r2 = "ok" THEN [raised |-> FALSE, host |-> ResolvedAddress, calls |-> 2]
    ELSE IF r2 = "error" THEN [raised |-> TRUE, host |-> h, calls |-> 2]
    ELSE [raised |-> FALSE, host |-> <<>>, calls |-> 2]

\* FFESSaunaCoordinator._resolve_host_sync: the host it returns, whether it
\* raised instead, and the number of resolver calls it made.
ResolveHostSync(h, r1, r2) ==
    IF InetAton(h) THEN [raised |-> FALSE, host |-> h, calls |-> 0]
    ELSE IF ~EndsWith(h, DotLocal) THEN [raised |-> FALSE, host |-> h, calls |-> 0]
    ELSE IF r1 = "ok" THEN [raised |-> FALSE, host |-> ResolvedAddress, calls |-> 1]
    ELSE IF r1 = "error" THEN [raised |-> TRUE, host |-> h, calls |-> 1]
    ELSE IF r2 = "ok" THEN [raised |-> FALSE, host |-> ResolvedAddress, calls |-> 2]
    ELSE IF r2 = "error" THEN [raised |-> TRUE, host |-> h, calls |-> 2]
    ELSE [raised |-> FALSE, host |-> h, calls |-> 2]

\* coordinator._resolved_host is None
NoResolved == [some |-> FALSE, host |-> <<>>]

\* FFESSaunaCoordinator._get_resolved_host: the cache after the call, whether
\* _resolve_host_sync ran, and the resolver calls made.  An exception of the
\* executor job is answered with self.host.
GetResolvedHost(cache, h, r1, r2) ==
    IF cache.some THEN [cache |-> cache, ran |-> FALSE, calls |-> 0]
    ELSE LET r == ResolveHostSync(h, r1, r2)
         IN  [cache |-> [some |-> TRUE, host |-> IF r.raised THEN h ELSE r.host],
              ran |-> TRUE, calls |-> r.calls]

\* mutant: the host is resolved again on every use of the client
ClientHost_ResolveEachTime(client, cache, h, r1, r2) ==
    LET r == ResolveHostSync(h, r1, r2)
    IN  [cache |-> [some |-> TRUE, host |-> IF r.raised THEN h ELSE r.host],
         ran |-> TRUE, calls |-> r.calls]

\* The first lines of _get_modbus_client: the host is resolved when the
\* client is created, and only then.
ClientHost(client, cache, h, r1, r2) ==
    IF client = "None" THEN GetResolvedHost(cache, h, r1, r2)
    ELSE [cache |-> cache, ran |-> FALSE, calls |-> 0]

\* config_flow._resolve_host_sync: no literal-address test; an exception
\* other than gaierror (IndexError) leaves the function.
ConfigResolveHostSync(h, r1, r2) ==
    IF ~EndsWith(h, DotLocal) THEN [raised |-> FALSE, host |-> h, calls |-> 0]
    ELSE IF r1 = "ok" THEN [raised |-> FALSE, host |-> ResolvedAddress, calls |-> 1]
    ELSE IF r1 = "error" THEN [raised |-> TRUE, host |-> h, calls |-> 1]
    ELSE IF r2 = "ok" THEN [raised |-> FALSE, host |-> ResolvedAddress, calls |-> 2]
    ELSE IF r2 = "error" THEN [raised |-> TRUE, host |-> h, calls |-> 2]
    ELSE [raised |-> FALSE, host |-> h, calls |-> 2]

\* config_flow.resolve_host: the host validate_input connects to.
ConfigResolveHost(h, r1, r2) ==
    IF ~EndsWith(h, DotLocal) THEN [host |-> h, calls |-> 0]
    ELSE LET r == ConfigResolveHostSync(h, r1, r2)
         IN  [host |-> IF r.raised THEN h ELSE r.host, calls |-> r.calls]

---------------------------------------------------------------------------
(* Modbus variant: register map and register access *)

\* register_map of _async_update_data, in the dict's iteration order
RegisterMap ==
    << <<1, "setTemp">>, <<2, "actualTemp">>, <<4, "profile">>,
       <<20, "controllerStatus">>, <<5, "sessionTime">>,
       <<6, "ventilationTime">>, <<9, "aromaValue">>,
       <<10, "humidityValue">>, <<11, "errorCode">>, <<15, "humidity">> >>

NumRegs == Len(RegisterMap)
Addrs == {RegisterMap[i][1] : i \in 1..NumRegs}
Keys == {RegisterMap[i][2] : i \in 1..NumRegs}

\* How a register request can end: a normal response, a normal response with
\* an empty register list, an ExceptionResponse, a response whose isError()
\* is true, or a raised exception (ModbusException, timeout, ...).
ReadOutcomes == {"ok", "empty", "exception_response", "is_error", "raise"}
WriteOutcomes == {"ok", "exception_response", "is_error", "raise"}

\* AsyncModbusTcpClient.connect(): connects, returns without a connection,
\* or raises.
ConnectOutcomes == {"connected", "refused", "raise"}

\* mutant: a client whose connect() failed is dropped
GetModbusClient_DropOnFailure(client, connectOutcome) ==
    LET created == client = "None"
        connect_called == client # "connected"
    IN  IF ~connect_called
        THEN [raised |-> FALSE, client |-> "connected",
              created |-> created, connect_called |-> FALSE]
        ELSE IF connectOutcome = "connected"
             THEN [raised |-> FALSE, client |-> "connected",
                   created |-> created, connect_called |-> TRUE]
             ELSE [raised |-> connectOutcome = "raise", client |-> "None",
                   created |-> created, connect_called |-> TRUE]

\* mutant: connect() is awaited only for a client that was just created
GetModbusClient_ConnectOnCreate(client, connectOutcome) ==
    LET created == client = "None"
        connect_called == created
    IN  IF ~connect_called
        THEN [raised |-> FALSE, client |-> client,
              created |-> created, connect_called |-> FALSE]
        ELSE IF connectOutcome = "connected"
             THEN [raised |-> FALSE, client |-> "connected",
                   created |-> created, connect_called |-> TRUE]
             ELSE [raised |-> connectOutcome = "raise", client |-> "disconnected",
                   created |-> created, connect_called |-> TRUE]

\* _get_modbus_client: the client is created when the attribute is None;
\* connect() is awaited whenever the client is not connected.
GetModbusClient(client, connectOutcome) ==
    LET created == client = "None"
        connect_called == client # "connected"
    IN  IF ~connect_called
        THEN [raised |-> FALSE, client |-> "connected",
              created |-> created, connect_called |-> FALSE]
        ELSE IF connectOutcome = "connected"
             THEN [raised |-> FALSE, client |-> "connected",
                   created |-> created, connect_called |-> TRUE]
             ELSE [raised |-> connectOutcome = "raise", client |-> "disconnected",
                   created |-> created, connect_called |-> TRUE]

\* _read_holding_register: one read of one register.  A request on a client
\* that is not connected raises.
ReadHoldingRegister(client, dev, addr, outcome) ==
    IF client # "connected" \/ outcome = "raise"
    THEN [raised |-> TRUE, response |-> "none", registers |-> <<>>]
    ELSE IF outcome = "ok"
         THEN [raised |-> FALSE, response |-> "ok", registers |-> <<dev[addr]>>]
         ELSE [raised |-> FALSE, response |-> outcome, registers |-> <<>>]

\* mutant: a write that raises is taken for a write that returned
WriteRegister_RaiseSwallowed(client, dev, addr, value, outcome) ==
    IF client # "connected"
    THEN [raised |-> TRUE, issued |-> FALSE, response |-> "none", dev |-> dev]
    ELSE IF outcome = "raise"
    THEN [raised |-> FALSE, issued |-> TRUE, response |-> "none", dev |-> dev]
    ELSE IF outcome = "ok"
    THEN [raised |-> FALSE, issued |-> TRUE, response |-> "ok",
          dev |-> [dev EXCEPT ![addr] = value]]
    ELSE [raised |-> FALSE, issued |-> TRUE, response |-> outcome, dev |-> dev]

\* _write_register: one write of one register.  The device stores the value
\* exactly when it answers normally.
WriteRegister(client, dev, addr, value, outcome) ==
    IF client # "connected"
    THEN [raised |-> TRUE, issued |-> FALSE, response |-> "none", dev |-> dev]
    ELSE IF outcome = "raise"
    THEN [raised |-> TRUE, issued |-> TRUE, response |-> "none", dev |-> dev]
    ELSE IF outcome = "ok"
    THEN [raised |-> FALSE, issued |-> TRUE, response |-> "ok",
          dev |-> [dev EXCEPT ![addr] = value]]
    ELSE [raised |-> FALSE, issued |-> TRUE, response |-> outcome, dev |-> dev]

\* the response test shared by the read and the write path
IsErrorResponse(response) ==
    response = "exception_response" \/ response = "is_error"

---------------------------------------------------------------------------
(* Snapshots *)

\* coordinator.data before the first successful refresh
NoData == [k \in {"None"} |-> TRUE]

RequiredKeys == {"controllerStatus", "actualTemp"}

\* the fields _async_update_data adds under the Modbus variant
ComputedFields ==
    [k \in {"light", "aux", "controllerModel"} |->
        IF k = "controllerModel" THEN 2 ELSE FALSE]

Merge(f, g) ==
    [k \in (DOMAIN f) \cup (DOMAIN g) |-> IF k \in DOMAIN f THEN f[k] ELSE g[k]]

\* data.get(key, default)
DataGet(d, key, default) == IF key \in DOMAIN d THEN d[key] ELSE default

---------------------------------------------------------------------------
(* Modbus variant: the poll *)

\* mutant: the loop ends at the first read that fails
ReadAll_AbortAtFailure(client, dev, outcomes) ==
    LET rd == [i \in 1..NumRegs |->
                 ReadHoldingRegister(client, dev, RegisterMap[i][1], outcomes[i])]
        good(i) == ~rd[i].raised /\ ~IsErrorResponse(rd[i].response)
        stored == {i \in 1..NumRegs : \A j \in 1..i : good(j)}
        idx(k) == CHOOSE i \in stored : RegisterMap[i][2] = k
    IN  [k \in {RegisterMap[i][2] : i \in stored} |->
            IF rd[idx(k)].registers # <<>> THEN rd[idx(k)].registers[1] ELSE 0]

\* mutant: a response without registers leaves its field out
ReadAll_EmptyDropped(client, dev, outcomes) ==
    LET rd == [i \in 1..NumRegs |->
                 ReadHoldingRegister(client, dev, RegisterMap[i][1], outcomes[i])]
        stored == {i \in 1..NumRegs :
                     /\ ~rd[i].raised /\ ~IsErrorResponse(rd[i].response)
                     /\ rd[i].registers # <<>>}
        idx(k) == CHOOSE i \in stored : RegisterMap[i][2] = k
    IN  [k \in {RegisterMap[i][2] : i \in stored} |-> rd[idx(k)].registers[1]]

\* The loop over register_map: every register is read on its own; a read
\* that raises or answers with an error leaves its key out; a normal answer
\* with no registers stores 0.
ReadAll(client, dev, outcomes) ==
    LET rd == [i \in 1..NumRegs |->
                 ReadHoldingRegister(client, dev, RegisterMap[i][1], outcomes[i])]
        stored == {i \in 1..NumRegs :
                     ~rd[i].raised /\ ~IsErrorResponse(rd[i].response)}
        idx(k) == CHOOSE i \in stored : RegisterMap[i][2] = k
    IN  [k \in {RegisterMap[i][2] : i \in stored} |->
            IF rd[idx(k)].registers # <<>> THEN rd[idx(k)].registers[1] ELSE 0]

\* mutant: the check forgets actualTemp
MissingRequired_StatusOnly(raw) == "controllerStatus" \notin DOMAIN raw

\* The check made before a snapshot is returned.
MissingRequired(raw) ==
    "controllerStatus" \notin DOMAIN raw \/ "actualTemp" \notin DOMAIN raw

\* _async_update_data (Modbus): returns the snapshot or raises UpdateFailed.
ModbusUpdateData(client, dev, connectOutcome, outcomes) ==
    LET g == GetModbusClient(client, connectOutcome)
        raw == ReadAll(g.client, dev, outcomes)
    IN  IF g.raised
        THEN [exc |-> "UpdateFailed", data |-> NoData, client |-> g.client]
        ELSE IF MissingRequired(raw)
        THEN [exc |-> "UpdateFailed", data |-> NoData, client |-> g.client]
        ELSE [exc |-> "none", data |-> Merge(raw, ComputedFields),
              client |-> g.client]

---------------------------------------------------------------------------
(* Modbus variant: command dispatch *)

ModbusActions ==
    {"set_temp", "set_profile", "start_session", "stop_session",
     "set_controller_status"}

\* mutant: the write addresses drift from the addresses the poll reads
WritePlan_AddressDrift(action, value, kwargs) ==
    CASE action = "set_temp" -> << [addr |-> 2, arg |-> value] >>
      [] action = "set_profile" -> << [addr |-> 5, arg |-> value] >>
      [] action = "set_controller_status" -> << [addr |-> 11, arg |-> value] >>
      [] action = "stop_session" -> << [addr |-> 20, arg |-> IntV(0)] >>
      [] action = "start_session" ->
            << [addr |-> 5, arg |-> KwGet(kwargs, "time", IntV(1800))],
               [addr |-> 4, arg |-> KwGet(kwargs, "profile", IntV(2))],
               [addr |-> 1, arg |-> value],
               [addr |-> 9, arg |-> KwGet(kwargs, "aroma", IntV(0))],
               [addr |-> 10, arg |-> KwGet(kwargs, "humidity", IntV(0))],
               [addr |-> 20, arg |-> IntV(1)] >>
      [] OTHER -> << >>

\* mutant: stopping a session rewrites the whole session with status 0
WritePlan_StopRewritesSession(action, value, kwargs) ==
    CASE action = "set_temp" -> << [addr |-> 1, arg |-> value] >>
      [] action = "set_profile" -> << [addr |-> 4, arg |-> value] >>
      [] action \in {"start_session", "stop_session"} ->
            << [addr |-> 5, arg |-> KwGet(kwargs, "time", IntV(1800))],
               [addr |-> 4, arg |-> KwGet(kwargs, "profile", IntV(2))],
               [addr |-> 1, arg |-> value],
               [addr |-> 9, arg |-> KwGet(kwargs, "aroma", IntV(0))],
               [addr |-> 10, arg |-> KwGet(kwargs, "humidity", IntV(0))],
               [addr |-> 20, arg |-> IntV(IF action = "start_session" THEN 1 ELSE 0)] >>
      [] action = "set_controller_status" -> << [addr |-> 20, arg |-> value] >>
      [] OTHER -> << >>

\* The register writes of an action, in program order: address and the
\* expression whose int() is written.
WritePlan(action, value, kwargs) ==
    CASE action = "set_temp" -> << [addr |-> 1, arg |-> value] >>
      [] action = "set_profile" -> << [addr |-> 4, arg |-> value] >>
      [] action = "start_session" ->
            << [addr |-> 5, arg |-> KwGet(kwargs, "time", IntV(1800))],
               [addr |-> 4, arg |-> KwGet(kwargs, "profile", IntV(2))],
               [addr |-> 1, arg |-> value],
               [addr |-> 9, arg |-> KwGet(kwargs, "aroma", IntV(0))],
               [addr |-> 10, arg |-> KwGet(kwargs, "humidity", IntV(0))],
               [addr |-> 20, arg |-> IntV(1)] >>
      [] action = "stop_session" -> << [addr |-> 20, arg |-> IntV(0)] >>
      [] action = "set_controller_status" -> << [addr |-> 20, arg |-> value] >>
      [] OTHER -> << >>

\* The writes of a plan from step i on.  int(arg) is evaluated right before
\* its write; a ValueError or a raising write ends the sequence.
RECURSIVE RunWrites(_, _, _, _, _)
RunWrites(client, plan, outcomes, i, st) ==
    IF i > Len(plan) \/ st.raised THEN st
    ELSE LET conv == PyInt(plan[i].arg)
             w == WriteRegister(client, st.dev, plan[i].addr, conv.n, outcomes[i])
         IN  IF ~conv.ok THEN [st EXCEPT !.raised = TRUE]
             ELSE RunWrites(client, plan, outcomes, i + 1,
                    [dev |-> w.dev,
                     writes |-> IF w.issued
                                THEN Append(st.writes, <<plan[i].addr, conv.n>>)
                                ELSE st.writes,
                     responses |-> IF w.issued
                                   THEN Append(st.responses, w.response)
                                   ELSE st.responses,
                     raised |-> w.raised])

\* The response async_send_command checks: the one assigned to `response`,
\* which is the response of the last write of the action.
CheckedResponse(responses) == responses[Len(responses)]

\* What `except Exception` makes of an exception raised in the body.
CommandExcept == "False"

\* mutant: an action without a register is reported as done
ModbusSendCommand_UnknownSucceeds(client, dev, action, value, kwargs, connectOutcome, outcomes) ==
    LET g == GetModbusClient(client, connectOutcome)
        none == [dev |-> dev, writes |-> <<>>, responses |-> <<>>, raised |-> FALSE]
        r == RunWrites(g.client, WritePlan(action, value, kwargs), outcomes, 1, none)
    IN  IF g.raised
        THEN [result |-> CommandExcept, client |-> g.client, dev |-> dev,
              writes |-> <<>>, responses |-> <<>>]
        ELSE IF action \notin ModbusActions
        THEN [result |-> "True", client |-> g.client, dev |-> dev,
              writes |-> <<>>, responses |-> <<>>]
        ELSE [result |-> IF r.raised THEN CommandExcept
                         ELSE IF IsErrorResponse(CheckedResponse(r.responses))
                              THEN "False" ELSE "True",
              client |-> g.client, dev |-> r.dev,
              writes |-> r.writes, responses |-> r.responses]

\* async_send_command (Modbus): result, device after, writes issued.
ModbusSendCommand(client, dev, action, value, kwargs, connectOutcome, outcomes) ==
    LET g == GetModbusClient(client, connectOutcome)
        none == [dev |-> dev, writes |-> <<>>, responses |-> <<>>, raised |-> FALSE]
        r == RunWrites(g.client, WritePlan(action, value, kwargs), outcomes, 1, none)
    IN  IF g.raised
        THEN [result |-> CommandExcept, client |-> g.client, dev |-> dev,
              writes |-> <<>>, responses |-> <<>>]
        ELSE IF action \notin ModbusActions
        THEN [result |-> "False", client |-> g.client, dev |-> dev,
              writes |-> <<>>, responses |-> <<>>]
        ELSE [result |-> IF r.raised THEN CommandExcept
                         ELSE IF IsErrorResponse(CheckedResponse(r.responses))
                              THEN "False" ELSE "True",
              client |-> g.client, dev |-> r.dev,
              writes |-> r.writes, responses |-> r.responses]

---------------------------------------------------------------------------
(* HTTP variant *)

RECURSIVE DecDigits(_)
DecDigits(n) ==
    IF n < 10 THEN <<Digits[n + 1]>>
    ELSE Append(DecDigits(n \div 10), Digits[(n % 10) + 1])

\* str(value) of an int or a str
PyStr(v) == IF v.t = "int" THEN DecDigits(v.n) ELSE v.s

\* How the HTTP exchange can end before a response is there.
HttpTransports == {"ok", "timeout", "client_error"}
HttpStatuses == {200, 404, 500}

NotJson == [json |-> FALSE, obj |-> << >>]
JsonObj(f) == [json |-> TRUE, obj |-> f]

Restrict(f, S) == [k \in (DOMAIN f) \cap S |-> f[k]]

\* mutant: a timeout is swallowed and an empty snapshot is returned
HttpUpdateData_TimeoutSwallowed(transport, status, body) ==
    IF transport = "timeout" THEN [exc |-> "none", data |-> << >>]
    ELSE IF transport = "client_error" THEN [exc |-> "UpdateFailed", data |-> NoData]
    ELSE IF status # 200 THEN [exc |-> "UpdateFailed", data |-> NoData]
    ELSE IF ~body.json THEN [exc |-> "UpdateFailed", data |-> NoData]
    ELSE [exc |-> "none", data |-> body.obj]

\* _async_update_data (HTTP): the parsed body is returned as it is.
HttpUpdateData(transport, status, body) ==
    IF transport = "timeout" THEN [exc |-> "UpdateFailed", data |-> NoData]
    ELSE IF transport = "client_error" THEN [exc |-> "UpdateFailed", data |-> NoData]
    ELSE IF status # 200 THEN [exc |-> "UpdateFailed", data |-> NoData]
    ELSE IF ~body.json THEN [exc |-> "UpdateFailed", data |-> NoData]
    ELSE [exc |-> "none", data |-> body.obj]

\* The form fields async_send_command posts: action, str(value) and, for
\* start_session only, str() of every keyword argument.
HttpForm(action, value, kwargs) ==
    LET base == [k \in {"action", "value"} |->
                    IF k = "action" THEN <<action>> ELSE PyStr(value)]
        extra == [k \in DOMAIN kwargs |-> PyStr(kwargs[k])]
    IN  IF action = "start_session" THEN Merge(extra, base) ELSE base

\* async_send_command (HTTP): result.get("success", False) of a 200 answer.
HttpSendCommand(action, value, kwargs, transport, status, body) ==
    LET form == HttpForm(action, value, kwargs)
    IN  IF transport # "ok" THEN [result |-> "False", post |-> form]
        ELSE IF status # 200 THEN [result |-> "False", post |-> form]
        ELSE IF ~body.json THEN [result |-> "False", post |-> form]
        ELSE [result |-> IF DataGet(body.obj, "success", FALSE)
                         THEN "True" ELSE "False",
              post |-> form]

---------------------------------------------------------------------------
(* The framework's refresh and the profile select adapter *)

\* DataUpdateCoordinator: a poll that returns publishes its snapshot; a poll
\* that raises UpdateFailed leaves coordinator.data as it was.
Published(r, d) == IF r.exc = "none" THEN r.data ELSE d

\* What an adapter does around its command: the command, then
\* async_request_refresh() when the command returned a true value.
AdapterEvents(success) ==
    IF success = "True" THEN <<"async_send_command", "async_request_refresh">>
    ELSE <<"async_send_command">>

\* mutant: the refresh is requested whatever the command returned
AdapterRefresh_Always(pending, success) ==
    [pending |-> TRUE,
     events |-> <<"async_send_command", "async_request_refresh">>]

\* `if success: await self.coordinator.async_request_refresh()`: whether a
\* refresh is pending afterwards, and what the adapter did.
AdapterRefresh(pending, success) ==
    [pending |-> (pending \/ success = "True"), events |-> AdapterEvents(success)]

SAUNA_PROFILES ==
    <<"Infrared Sauna", "Dry Sauna", "Wet Sauna", "Ventilation", "Steambath",
      "Infrared CPIR", "Infrared MIX">>

\* the lookup loop of async_select_option: 0 stands for None
ProfileId(option) ==
    IF \E pid \in 1..Len(SAUNA_PROFILES) : SAUNA_PROFILES[pid] = option
    THEN CHOOSE pid \in 1..Len(SAUNA_PROFILES) : SAUNA_PROFILES[pid] = option
    ELSE 0

\* f"{n:02d}"
Format02d(n) == IF n < 10 THEN <<"0", Digits[n + 1]>> ELSE DecDigits(n)

\* the raw time value as the adapter renders it, "HH:MM"
TimeStr(t) ==
    LET hours == IF t >= 100 THEN t \div 100 ELSE 0
        minutes == IF t >= 100 THEN t % 100 ELSE t
    IN  Format02d(hours) \o <<":">> \o Format02d(minutes)

SAUNA_STATUS_MAP ==
    [status \in 0..3 |->
        CASE status = 0 -> "off"
          [] status = 1 -> "heat"
          [] status = 2 -> "fan_only"
          [] status = 3 -> "auto"]

\* FFESSaunaClimate.hvac_mode: the mode shown for a snapshot
HvacMode(d) ==
    LET status == DataGet(d, "controllerStatus", 0)
        status_str == IF status \in DOMAIN SAUNA_STATUS_MAP
                      THEN SAUNA_STATUS_MAP[status] ELSE "off"
    IN  CASE status_str = "off" -> "off"
          [] status_str = "heat" -> "heat"
          [] status_str = "fan_only" -> "fan_only"
          [] OTHER -> "auto"

\* mutant: the status values of FAN_ONLY and AUTO change places
HvacStatus_FanAutoSwapped(hvac_mode) ==
    CASE hvac_mode = "off" -> 0
      [] hvac_mode = "heat" -> 1
      [] hvac_mode = "fan_only" -> 3
      [] OTHER -> 2

\* async_set_hvac_mode: the status value of an HVAC mode
HvacStatus(hvac_mode) ==
    CASE hvac_mode = "off" -> 0
      [] hvac_mode = "heat" -> 1
      [] hvac_mode = "fan_only" -> 2
      [] OTHER -> 3

PRESET_NONE == "none"

\* The send_command call of a climate or switch adapter method, action ""
\* when the method returns without one.  name is the mode or preset given,
\* temp the temperature attribute.
AdapterCall(adapter, name, temp) ==
    CASE adapter = "set_hvac_mode" ->
            [action |-> "set_controller_status", value |-> IntV(HvacStatus(name)),
             kwargs |-> NoKwargs]
      [] adapter = "set_temperature" ->
            IF temp = NoneV
            THEN [action |-> "", value |-> IntV(0), kwargs |-> NoKwargs]
            ELSE [action |-> "set_temp", value |-> IntV(PyInt(temp).n),
                  kwargs |-> NoKwargs]
      [] adapter = "set_preset_mode" ->
            IF name = PRESET_NONE \/ ProfileId(name) = 0
            THEN [action |-> "", value |-> IntV(0), kwargs |-> NoKwargs]
            ELSE [action |-> "set_profile", value |-> IntV(ProfileId(name)),
                  kwargs |-> NoKwargs]
      [] adapter = "light_turn_on" ->
            [action |-> "light", value |-> StrV(<<"1">>), kwargs |-> NoKwargs]
      [] adapter = "light_turn_off" ->
            [action |-> "light", value |-> StrV(<<"0">>), kwargs |-> NoKwargs]
      [] adapter = "aux_turn_on" ->
            [action |-> "aux", value |-> StrV(<<"1">>), kwargs |-> NoKwargs]
      [] adapter = "aux_turn_off" ->
            [action |-> "aux", value |-> StrV(<<"0">>), kwargs |-> NoKwargs]

\* FFESSaunaSessionTimeSensor.native_value: the raw time value in minutes,
\* None when the snapshot has no sessionTime.
SessionTimeNativeValue(d) ==
    IF "sessionTime" \notin DOMAIN d THEN NoneV
    ELSE LET session_time == d["sessionTime"]
         IN  IF session_time >= 100
             THEN IntV(((session_time \div 100) * 60) + (session_time % 100))
             ELSE IntV(session_time)

\* The call async_select_option makes: action, value and keyword arguments.
SelectCall(d, profile_id) ==
    [action |-> "start_session",
     value |-> StrV(<<>>),
     kwargs |->
        [k \in {"profile", "temperature", "session_time", "ventilation_time",
                "aroma_value", "humidity_value"} |->
            CASE k = "profile" -> IntV(profile_id)
              [] k = "temperature" -> IntV(DataGet(d, "setTemp", 80))
              [] k = "session_time" -> StrV(TimeStr(DataGet(d, "sessionTime", 60)))
              [] k = "ventilation_time" ->
                    StrV(TimeStr(DataGet(d, "ventilationTime", 15)))
              [] k = "aroma_value" -> IntV(DataGet(d, "aromaValue", 0))
              [] k = "humidity_value" -> IntV(DataGet(d, "humidityValue", 0))]]

---------------------------------------------------------------------------
(* Inputs *)

\* the device's registers when the run starts
InitDevice ==
    [a \in Addrs |->
        CASE a = 1 -> 70   [] a = 2 -> 25   [] a = 4 -> 1   [] a = 5 -> 60
          [] a = 6 -> 15   [] a = 9 -> 3    [] a = 10 -> 40 [] a = 11 -> 0
          [] a = 15 -> 35  [] a = 20 -> 0]

\* values and keyword arguments callers pass to send_command
SessionKwargs ==
    [k \in {"profile", "temperature", "session_time"} |->
        CASE k = "profile" -> IntV(2)
          [] k = "temperature" -> IntV(80)
          [] k = "session_time" -> StrV(<<"0", "1", ":", "0", "0">>)]
Call(action, value, kwargs) ==
    [action |-> action, value |-> value, kwargs |-> kwargs]
Calls ==
    {Call("set_temp", IntV(80), NoKwargs),
     Call("set_temp", StrV(<<>>), NoKwargs),
     Call("set_temp", IntV(80), SessionKwargs),
     Call("set_profile", IntV(2), NoKwargs),
     Call("set_controller_status", IntV(1), NoKwargs),
     Call("stop_session", IntV(0), NoKwargs),
     Call("light", StrV(<<"1">>), NoKwargs),
     Call("set_humidity", IntV(40), NoKwargs),
     Call("start_session", IntV(80), SessionKwargs),
     Call("start_session", StrV(<<>>), SessionKwargs)}

\* what the user does with the climate entity and the two switches
AdapterInput(adapter, name, temp) ==
    [adapter |-> adapter, name |-> name, temp |-> temp]
ClimateInputs ==
    {AdapterInput("set_hvac_mode", "heat", NoneV),
     AdapterInput("set_hvac_mode", "off", NoneV),
     AdapterInput("set_hvac_mode", "fan_only", NoneV),
     AdapterInput("set_hvac_mode", "auto", NoneV),
     AdapterInput("set_temperature", "", IntV(85)),
     AdapterInput("set_temperature", "", NoneV),
     AdapterInput("set_preset_mode", "Wet Sauna", NoneV),
     AdapterInput("set_preset_mode", PRESET_NONE, NoneV)}
SwitchInputs ==
    {AdapterInput("light_turn_on", "", NoneV),
     AdapterInput("light_turn_off", "", NoneV),
     AdapterInput("aux_turn_on", "", NoneV),
     AdapterInput("aux_turn_off", "", NoneV)}

\* options offered to the select adapter: two profile names and a name that
\* is no profile
Options == {"Dry Sauna", "Wet Sauna", "Turbo"}

\* sequences of n outcomes with at most k that are not "ok"
FaultSets(n, k) == {S \in SUBSET (1..n) : Cardinality(S) <= k}
OutcomeSeqs(n, k, kinds) ==
    UNION {{[i \in 1..n |-> IF i \in S THEN f[i] ELSE "ok"] :
                f \in [S -> kinds \ {"ok"}]} : S \in FaultSets(n, k)}
NFaults(o) == Cardinality({i \in DOMAIN o : o[i] # "ok"})

\* read outcomes of a poll and write outcomes of a plan of n writes, by the
\* number of faults still allowed
ReadSeqs == [k \in 0..MaxFaults |-> OutcomeSeqs(NumRegs, k, ReadOutcomes)]
WriteSeqs ==
    [n \in {0, 1, 6} |->
        [k \in 0..MaxFaults |-> OutcomeSeqs(n, k, WriteOutcomes)]]

\* hosts the user configures: a literal address, DEFAULT_HOST and a name
\* outside .local
AddressHost == <<"1", "0", ".", "0", ".", "0", ".", "5">>
DEFAULT_HOST == <<"f", "f", "e", "s", ".", "l", "o", "c", "a", "l">>
PlainHost == <<"s", "a", "u", "n", "a">>

\* what the two resolver calls answer, when they are made
ResolverOutcomes ==
    {<<"ok", "ok">>, <<"gaierror", "ok">>, <<"gaierror", "empty">>,
     <<"gaierror", "gaierror">>, <<"gaierror", "error">>, <<"error", "ok">>,
     <<"error", "gaierror">>}

\* a name the first resolver call does not resolve is a fault of the run
ResolveFault(rv) == IF rv[1] = "ok" THEN 0 ELSE 1

\* the resolver is asked only for a .local name that is not cached
ResolverChoices(asked, left) ==
    IF asked /\ left > 0 THEN ResolverOutcomes ELSE {<<"ok", "ok">>}

\* a new client is about to be created for a name the resolver is asked for
ResolverAsked(client, cache, h) ==
    /\ client = "None"
    /\ ~cache.some
    /\ ~InetAton(h)
    /\ EndsWith(h, DotLocal)

\* a connect() that does not connect is a fault of the run as well
ConnectFault(c) == IF c = "connected" THEN 0 ELSE 1

\* connect() is only awaited on a client that is not connected
ConnectChoices(client, left) ==
    IF client = "connected" \/ left = 0 THEN {"connected"} ELSE ConnectOutcomes

\* a read is only made on a connection, and fails only within the budget
ReadChoices(made, left) == IF made /\ left > 0 THEN ReadOutcomes ELSE {"ok"}

\* bodies the device answers a GET /sauna-data with
FullBody ==
    [k \in {"controllerStatus", "actualTemp", "setTemp", "profile", "light", "aux"} |->
        CASE k = "controllerStatus" -> 1 [] k = "actualTemp" -> 25
          [] k = "setTemp" -> 80 [] k = "profile" -> 2
          [] k = "light" -> TRUE [] k = "aux" -> FALSE]
PollBodies ==
    {NotJson} \cup
    {JsonObj(Restrict(FullBody, (DOMAIN FullBody) \ S)) :
        S \in {{}, {"controllerStatus"}, {"actualTemp"}, {"light"},
               {"controllerStatus", "actualTemp"}, DOMAIN FullBody}}

\* the answer of a device that works: 200 and the full body
HttpNominal(t, s, b, good) == t = "ok" /\ s = 200 /\ b = good
HttpFault(t, s, b, good) == IF HttpNominal(t, s, b, good) THEN 0 ELSE 1

\* bodies the device answers a POST /sauna-control with
SuccessBody == JsonObj([k \in {"success"} |-> TRUE])
CommandBodies ==
    {NotJson, JsonObj([k \in {} |-> TRUE]), SuccessBody,
     JsonObj([k \in {"success"} |-> FALSE])}

---------------------------------------------------------------------------
(* The record of the last operation *)

\* what is kept of the operation before the last one
NoPrev ==
    [op |-> "none", action |-> "", value |-> IntV(0), result |-> "none",
     exc |-> "none", down |-> FALSE]

NoLast ==
    [op |-> "none", action |-> "", value |-> IntV(0), kwargs |-> NoKwargs,
     result |-> "none", writes |-> <<>>, responses |-> <<>>,
     exc |-> "none", reads |-> <<>>, connect |-> "none",
     created |-> FALSE, connect_called |-> FALSE, name |-> "",
     http |-> <<>>, post |-> <<>>, option |-> "", prev |-> NoPrev,
     resolve |-> [ran |-> FALSE, calls |-> 0, answer |-> <<"none", "none">>],
     events |-> <<>>]

\* The operation had no transport: connect() gave no connection, or the
\* HTTP exchange timed out or failed to connect.
TransportDown(l) ==
    \/ l.connect \in {"refused", "raise"}
    \/ (l.http # <<>> /\ l.http[1] \in {"timeout", "client_error"})

Summary(l) ==
    [op |-> l.op, action |-> l.action, value |-> l.value, result |-> l.result,
     exc |-> l.exc, down |-> TransportDown(l)]

\* the snapshot a poll has collected before its first read
EmptyRaw == [k \in {} |-> 0]

\* no poll and no command is suspended.  pc is the number of the register
\* operation whose response the task awaits, 0 when the task is not running.
NoTasks ==
    [poll |-> [pc |-> 0, raw |-> EmptyRaw, reads |-> <<>>],
     cmd |-> [pc |-> 0, inp |-> AdapterInput("", "", NoneV),
              call |-> Call("", IntV(0), NoKwargs),
              writes |-> <<>>, responses |-> <<>>]]

---------------------------------------------------------------------------
(* Setup: the config flow's manual step and async_setup_entry *)

DEFAULT_SCAN_INTERVAL == 15

NoEntry == [host |-> <<>>, scan_interval |-> 0]
NoFlow ==
    [step |-> "none", errors |-> "none", connect |-> "none",
     read20 |-> "none", read2 |-> "none", host |-> <<>>, resolved |-> <<>>,
     resolver_calls |-> 0, answer |-> <<"none", "none">>]

\* STEP_USER_DATA_SCHEMA: vol.All(vol.Coerce(int), vol.Range(min=5, max=300))
ScanIntervalValid(n) == n >= 5 /\ n <= 300

\* FFESSaunaCoordinator.__init__(hass, host, scan_interval=DEFAULT_SCAN_INTERVAL)
CoordinatorInit(scan_interval) == scan_interval

\* async_setup_entry builds the coordinator as FFESSaunaCoordinator(hass, host).
SetupEntryInterval(entry_data) == CoordinatorInit(DEFAULT_SCAN_INTERVAL)

\* The exception the try body of validate_input raises, "none" when it runs
\* to its end.  r20 and r2 are the outcomes of the reads of registers 20
\* and 2.
ValidateBody(connectOutcome, r20, r2) ==
    IF connectOutcome = "raise" THEN "Exception"
    ELSE IF connectOutcome # "connected" THEN "CannotConnect"
    ELSE IF r20 = "raise" THEN "ModbusException"
    ELSE IF r20 = "exception_response" THEN "CannotConnect"
    ELSE IF r20 = "is_error" THEN "CannotConnect"
    ELSE IF r20 = "empty" THEN "InvalidData"
    ELSE IF r2 = "raise" THEN "ModbusException"
    ELSE "none"

\* The except clauses of validate_input: ModbusException, then Exception.
\* CannotConnect and InvalidData are HomeAssistantError, hence Exception.
ValidateExcept(exc) ==
    CASE exc = "none" -> "none"
      [] exc = "ModbusException" -> "CannotConnect"
      [] OTHER -> "CannotConnect"

\* validate_input: the exception it raises, "none" when it returns the title.
ValidateInput(connectOutcome, r20, r2) ==
    ValidateExcept(ValidateBody(connectOutcome, r20, r2))

\* The except clauses of async_step_manual: errors["base"].
ManualErrors(exc) ==
    CASE exc = "CannotConnect" -> "cannot_connect"
      [] exc = "InvalidData" -> "invalid_data"
      [] exc = "none" -> "none"
      [] OTHER -> "unknown"

\* FFESSaunaCoordinator.async_close: the client, if there is one, is closed.
AsyncClose(client) == IF client = "None" THEN "None" ELSE "closed"

\* async_unload_entry: when the platforms unload, the coordinator is popped
\* from hass.data; nothing else is done with it.
AsyncUnloadEntry(client, unload_ok) ==
    [coordinator |-> IF unload_ok THEN "unloaded" ELSE "loaded",
     client |-> client,
     result |-> IF unload_ok THEN "True" ELSE "False"]

Hosts == {AddressHost, DEFAULT_HOST, PlainHost}
ScanIntervals == {5, 15, 300}

---------------------------------------------------------------------------
(* Actions *)

Init ==
    /\ variant \in {"modbus", "http"}
    /\ host \in {AddressHost, DEFAULT_HOST}
    /\ variant = "http" => host = DEFAULT_HOST
    /\ resolved_host = NoResolved
    /\ resolutions = 0
    /\ flow = NoFlow
    /\ entry = NoEntry
    /\ coordinator = "loaded"
    /\ update_interval = CoordinatorInit(DEFAULT_SCAN_INTERVAL)
    /\ device = InitDevice
    /\ modbus_client = "None"
    /\ data = NoData
    /\ last_update_success = TRUE
    /\ refresh_requested = FALSE
    /\ last = NoLast
    /\ ops = 0
    /\ faults = 0
    /\ tasks = NoTasks

\* A timer tick or a requested refresh under the Modbus variant.
ModbusPoll ==
    /\ variant = "modbus"
    /\ ops < MaxOps
    /\ \E rv \in ResolverChoices(ResolverAsked(modbus_client, resolved_host, host),
                                 MaxFaults - faults) :
       \E h \in {ClientHost(modbus_client, resolved_host, host, rv[1], rv[2])} :
       \E c \in ConnectChoices(modbus_client,
                               MaxFaults - faults - ResolveFault(rv)) :
       \E o \in ReadSeqs[MaxFaults - faults - ResolveFault(rv) - ConnectFault(c)] :
          \E r \in {ModbusUpdateData(modbus_client, device, c, o)} :
          LET attempted == c # "raise"
              eff == [i \in 1..NumRegs |->
                        IF r.client = "connected" THEN o[i] ELSE "raise"]
          IN  /\ r.client # "connected" => NFaults(o) = 0
              /\ data' = Published(r, data)
              /\ last_update_success' = (r.exc = "none")
              /\ modbus_client' = r.client
              /\ resolved_host' = h.cache
              /\ resolutions' = resolutions + (IF h.ran THEN 1 ELSE 0)
              /\ last' = [NoLast EXCEPT !.prev = Summary(last),
                                        !.op = "poll", !.exc = r.exc,
                                        !.connect = c,
                                        !.created = GetModbusClient(modbus_client, c).created,
                                        !.connect_called = GetModbusClient(modbus_client, c).connect_called,
                                        !.reads = IF attempted THEN eff ELSE <<>>,
                                        !.resolve = [ran |-> h.ran, calls |-> h.calls,
                                                     answer |-> rv]]
              /\ faults' = faults + NFaults(o) + ConnectFault(c) + ResolveFault(rv)
    /\ refresh_requested' = FALSE
    /\ ops' = ops + 1
    /\ UNCHANGED <<variant, device, host>>
    /\ UNCHANGED setupVars
    /\ UNCHANGED tasks

\* send_command called on the Modbus coordinator.
ModbusCommand ==
    /\ variant = "modbus"
    /\ ops < MaxOps
    /\ \E call \in Calls :
       \E rv \in ResolverChoices(ResolverAsked(modbus_client, resolved_host, host),
                                 MaxFaults - faults) :
       \E h \in {ClientHost(modbus_client, resolved_host, host, rv[1], rv[2])} :
       \E c \in ConnectChoices(modbus_client,
                               MaxFaults - faults - ResolveFault(rv)) :
       \E o \in WriteSeqs[Len(WritePlan(call.action, call.value, call.kwargs))]
                         [MaxFaults - faults - ResolveFault(rv) - ConnectFault(c)] :
          \E r \in {ModbusSendCommand(modbus_client, device, call.action,
                                     call.value, call.kwargs, c, o)} :
              /\ \A i \in (Len(r.writes) + 1)..Len(o) : o[i] = "ok"
              /\ device' = r.dev
              /\ modbus_client' = r.client
              /\ resolved_host' = h.cache
              /\ resolutions' = resolutions + (IF h.ran THEN 1 ELSE 0)
              /\ last' = [NoLast EXCEPT !.prev = Summary(last),
                                        !.op = "cmd", !.action = call.action,
                                        !.value = call.value,
                                        !.kwargs = call.kwargs,
                                        !.result = r.result, !.connect = c,
                                        !.created = GetModbusClient(modbus_client, c).created,
                                        !.connect_called = GetModbusClient(modbus_client, c).connect_called,
                                        !.writes = r.writes,
                                        !.responses = r.responses,
                                        !.resolve = [ran |-> h.ran, calls |-> h.calls,
                                                     answer |-> rv]]
              /\ faults' = faults + NFaults(o) + ConnectFault(c) + ResolveFault(rv)
    /\ ops' = ops + 1
    /\ UNCHANGED <<variant, data, last_update_success, refresh_requested, host>>
    /\ UNCHANGED setupVars
    /\ UNCHANGED tasks

\* FFESSaunaProfileSelect.async_select_option.  The entity exists once the
\* first refresh has published a snapshot.
SelectOption ==
    /\ variant = "modbus"
    /\ ops < MaxOps
    /\ data # NoData
    /\ \E option \in Options :
       \E rv \in ResolverChoices(ResolverAsked(modbus_client, resolved_host, host),
                                 MaxFaults - faults) :
       \E h \in {ClientHost(modbus_client, resolved_host, host, rv[1], rv[2])} :
       \E c \in ConnectChoices(modbus_client,
                               MaxFaults - faults - ResolveFault(rv)) :
       \E o \in WriteSeqs[6][MaxFaults - faults - ResolveFault(rv) - ConnectFault(c)] :
       \E profile_id \in {ProfileId(option)} :
       \E call \in {SelectCall(data, profile_id)} :
       \E r \in {ModbusSendCommand(modbus_client, device, call.action,
                                   call.value, call.kwargs, c, o)} :
              IF profile_id = 0
              THEN /\ c = "connected" /\ NFaults(o) = 0 /\ ResolveFault(rv) = 0
                   /\ last' = [NoLast EXCEPT !.prev = Summary(last),
                                        !.op = "select", !.option = option]
                   /\ UNCHANGED <<device, modbus_client, refresh_requested, faults,
                                  resolved_host, resolutions>>
              ELSE /\ \A i \in (Len(r.writes) + 1)..6 : o[i] = "ok"
                   /\ device' = r.dev
                   /\ modbus_client' = r.client
                   /\ resolved_host' = h.cache
                   /\ resolutions' = resolutions + (IF h.ran THEN 1 ELSE 0)
                   /\ refresh_requested' = (refresh_requested \/ r.result = "True")
                   /\ last' = [NoLast EXCEPT !.prev = Summary(last),
                                        !.op = "select", !.option = option,
                                             !.action = call.action,
                                             !.value = call.value,
                                             !.kwargs = call.kwargs,
                                             !.result = r.result, !.connect = c,
                                             !.created = GetModbusClient(modbus_client, c).created,
                                             !.connect_called = GetModbusClient(modbus_client, c).connect_called,
                                             !.writes = r.writes,
                                             !.responses = r.responses,
                                             !.resolve = [ran |-> h.ran,
                                                          calls |-> h.calls,
                                                          answer |-> rv],
                                             !.events = AdapterEvents(r.result)]
                   /\ faults' = faults + NFaults(o) + ConnectFault(c)
                                 + ResolveFault(rv)
    /\ ops' = ops + 1
    /\ UNCHANGED <<variant, data, last_update_success, host>>
    /\ UNCHANGED setupVars
    /\ UNCHANGED tasks

\* A method of the climate entity or of a switch, on the Modbus coordinator.
ModbusAdapter ==
    /\ variant = "modbus"
    /\ ops < MaxOps
    /\ data # NoData
    /\ \E inp \in ClimateInputs \cup SwitchInputs :
       \E call \in {AdapterCall(inp.adapter, inp.name, inp.temp)} :
       \E rv \in ResolverChoices(ResolverAsked(modbus_client, resolved_host, host),
                                 MaxFaults - faults) :
       \E h \in {ClientHost(modbus_client, resolved_host, host, rv[1], rv[2])} :
       \E c \in ConnectChoices(modbus_client,
                               MaxFaults - faults - ResolveFault(rv)) :
       \E o \in WriteSeqs[Len(WritePlan(call.action, call.value, call.kwargs))]
                         [MaxFaults - faults - ResolveFault(rv) - ConnectFault(c)] :
       \E r \in {ModbusSendCommand(modbus_client, device, call.action,
                                   call.value, call.kwargs, c, o)} :
       \E f \in {AdapterRefresh(refresh_requested, r.result)} :
              IF call.action = ""
              THEN /\ c = "connected" /\ NFaults(o) = 0 /\ ResolveFault(rv) = 0
                   /\ last' = [NoLast EXCEPT !.prev = Summary(last),
                                             !.op = "adapter", !.option = inp.adapter]
                   /\ UNCHANGED <<device, modbus_client, refresh_requested, faults,
                                  resolved_host, resolutions>>
              ELSE /\ \A i \in (Len(r.writes) + 1)..Len(o) : o[i] = "ok"
                   /\ device' = r.dev
                   /\ modbus_client' = r.client
                   /\ resolved_host' = h.cache
                   /\ resolutions' = resolutions + (IF h.ran THEN 1 ELSE 0)
                   /\ refresh_requested' = f.pending
                   /\ last' = [NoLast EXCEPT !.prev = Summary(last),
                                             !.op = "adapter", !.option = inp.adapter,
                                             !.name = inp.name,
                                             !.action = call.action,
                                             !.value = call.value,
                                             !.kwargs = call.kwargs,
                                             !.result = r.result, !.connect = c,
                                             !.created = GetModbusClient(modbus_client, c).created,
                                             !.connect_called = GetModbusClient(modbus_client, c).connect_called,
                                             !.writes = r.writes,
                                             !.responses = r.responses,
                                             !.resolve = [ran |-> h.ran,
                                                          calls |-> h.calls,
                                                          answer |-> rv],
                                             !.events = f.events]
                   /\ faults' = faults + NFaults(o) + ConnectFault(c)
                                 + ResolveFault(rv)
    /\ ops' = ops + 1
    /\ UNCHANGED <<variant, data, last_update_success, host>>
    /\ UNCHANGED setupVars
    /\ UNCHANGED tasks

\* The TCP connection to the device drops.
ConnectionLost ==
    /\ variant = "modbus"
    /\ modbus_client = "connected"
    /\ faults < MaxFaults
    /\ modbus_client' = "disconnected"
    /\ faults' = faults + 1
    /\ UNCHANGED <<variant, device, data, last_update_success,
                   refresh_requested, last, ops>>
    /\ UNCHANGED setupVars
    /\ UNCHANGED tasks
    /\ UNCHANGED hostVars

\* A timer tick under the HTTP variant.
HttpPoll ==
    /\ variant = "http"
    /\ ops < MaxOps
    /\ \E t \in HttpTransports, s \in HttpStatuses, b \in PollBodies :
          \E r \in {HttpUpdateData(t, s, b)} :
              /\ t # "ok" => (s = 200 /\ b = NotJson)
              /\ s # 200 => b = NotJson
              /\ faults + HttpFault(t, s, b, JsonObj(FullBody)) <= MaxFaults
              /\ data' = Published(r, data)
              /\ last_update_success' = (r.exc = "none")
              /\ last' = [NoLast EXCEPT !.prev = Summary(last),
                                        !.op = "poll", !.exc = r.exc,
                                        !.http = <<t, s, b>>]
              /\ faults' = faults + HttpFault(t, s, b, JsonObj(FullBody))
    /\ refresh_requested' = FALSE
    /\ ops' = ops + 1
    /\ UNCHANGED <<variant, device, modbus_client>>
    /\ UNCHANGED setupVars
    /\ UNCHANGED tasks
    /\ UNCHANGED hostVars

\* send_command called on the HTTP coordinator.
HttpCommand ==
    /\ variant = "http"
    /\ ops < MaxOps
    /\ \E call \in Calls :
       \E t \in HttpTransports, s \in HttpStatuses, b \in CommandBodies :
          \E r \in {HttpSendCommand(call.action, call.value, call.kwargs, t, s, b)} :
              /\ t # "ok" => (s = 200 /\ b = NotJson)
              /\ s # 200 => b = NotJson
              /\ faults + HttpFault(t, s, b, SuccessBody) <= MaxFaults
              /\ faults' = faults + HttpFault(t, s, b, SuccessBody)
              /\ last' = [NoLast EXCEPT !.prev = Summary(last),
                                        !.op = "cmd", !.action = call.action,
                                        !.value = call.value,
                                        !.kwargs = call.kwargs,
                                        !.result = r.result,
                                        !.http = <<t, s, b>>, !.post = r.post]
    /\ ops' = ops + 1
    /\ UNCHANGED <<variant, device, modbus_client, data, last_update_success,
                   refresh_requested>>
    /\ UNCHANGED setupVars
    /\ UNCHANGED tasks
    /\ UNCHANGED hostVars

\* A method of a switch, on the HTTP coordinator.
HttpAdapter ==
    /\ variant = "http"
    /\ ops < MaxOps
    /\ data # NoData
    /\ \E inp \in SwitchInputs :
       \E call \in {AdapterCall(inp.adapter, inp.name, inp.temp)} :
       \E t \in HttpTransports, s \in HttpStatuses, b \in CommandBodies :
       \E r \in {HttpSendCommand(call.action, call.value, call.kwargs, t, s, b)} :
       \E f \in {AdapterRefresh(refresh_requested, r.result)} :
              /\ t # "ok" => (s = 200 /\ b = NotJson)
              /\ s # 200 => b = NotJson
              /\ faults + HttpFault(t, s, b, SuccessBody) <= MaxFaults
              /\ faults' = faults + HttpFault(t, s, b, SuccessBody)
              /\ refresh_requested' = f.pending
              /\ last' = [NoLast EXCEPT !.prev = Summary(last),
                                        !.op = "adapter", !.option = inp.adapter,
                                        !.name = inp.name,
                                        !.action = call.action,
                                        !.value = call.value,
                                        !.kwargs = call.kwargs,
                                        !.result = r.result,
                                        !.http = <<t, s, b>>, !.post = r.post,
                                        !.events = f.events]
    /\ ops' = ops + 1
    /\ UNCHANGED <<variant, device, modbus_client, data, last_update_success>>
    /\ UNCHANGED setupVars
    /\ UNCHANGED tasks
    /\ UNCHANGED hostVars

Next ==
    \/ ModbusPoll
    \/ ModbusCommand
    \/ SelectOption
    \/ ModbusAdapter
    \/ ConnectionLost
    \/ HttpPoll
    \/ HttpCommand
    \/ HttpAdapter

Spec == Init /\ [][Next]_vars

---------------------------------------------------------------------------
(* The time codec specification: the session time sensor and the profile  *)
(* select on a coordinator whose snapshot holds a raw time value, with a  *)
(* device that answers every request.                                     *)

\* raw time values the device reports in register 5
MaxRawTime == 259
RawTimes == 0..MaxRawTime

InitCodec ==
    /\ variant = "modbus"
    /\ host = AddressHost
    /\ resolved_host = [some |-> TRUE, host |-> AddressHost]
    /\ resolutions = 1
    /\ flow = NoFlow
    /\ entry = NoEntry
    /\ coordinator = "loaded"
    /\ update_interval = CoordinatorInit(DEFAULT_SCAN_INTERVAL)
    /\ \E raw \in RawTimes : device = [InitDevice EXCEPT ![5] = raw]
    /\ modbus_client = "connected"
    /\ data = Merge(ReadAll("connected", device, [i \in 1..NumRegs |-> "ok"]),
                    ComputedFields)
    /\ last_update_success = TRUE
    /\ refresh_requested = FALSE
    /\ last = NoLast
    /\ ops = 0
    /\ faults = MaxFaults
    /\ tasks = NoTasks

\* The state of the session time sensor is read.
SessionTimeValue ==
    /\ variant = "modbus"
    /\ ops < MaxOps
    /\ data # NoData
    /\ last' = [NoLast EXCEPT !.prev = Summary(last), !.op = "sensor",
                              !.value = SessionTimeNativeValue(data)]
    /\ ops' = ops + 1
    /\ UNCHANGED <<variant, device, modbus_client, data, last_update_success,
                   refresh_requested, faults>>
    /\ UNCHANGED setupVars
    /\ UNCHANGED tasks
    /\ UNCHANGED hostVars

\* status values the device reports that no mode of the adapter wrote
MaxStatus == 6
StatusValues == {0} \cup 4..MaxStatus

InitClimate ==
    /\ variant = "modbus"
    /\ host = AddressHost
    /\ resolved_host = [some |-> TRUE, host |-> AddressHost]
    /\ resolutions = 1
    /\ flow = NoFlow
    /\ entry = NoEntry
    /\ coordinator = "loaded"
    /\ update_interval = CoordinatorInit(DEFAULT_SCAN_INTERVAL)
    /\ \E status \in StatusValues : device = [InitDevice EXCEPT ![20] = status]
    /\ modbus_client = "connected"
    /\ data = Merge(ReadAll("connected", device, [i \in 1..NumRegs |-> "ok"]),
                    ComputedFields)
    /\ last_update_success = TRUE
    /\ refresh_requested = FALSE
    /\ last = NoLast
    /\ ops = 0
    /\ faults = MaxFaults
    /\ tasks = NoTasks

\* Home Assistant reads the hvac_mode property of the climate entity.
HvacModeValue ==
    /\ variant = "modbus"
    /\ data # NoData
    /\ last.op # "hvac_mode"
    /\ last' = [NoLast EXCEPT !.prev = Summary(last), !.op = "hvac_mode",
                              !.option = HvacMode(data)]
    /\ UNCHANGED <<variant, device, modbus_client, data, last_update_success,
                   refresh_requested, faults, ops>>
    /\ UNCHANGED setupVars
    /\ UNCHANGED tasks
    /\ UNCHANGED hostVars

NextClimate ==
    \/ ModbusAdapter
    \/ ModbusPoll
    \/ HvacModeValue

SpecClimate == InitClimate /\ [][NextClimate]_vars

\* The task specification: asyncio runs one task until it awaits, so each
\* action below is the code of a poll or of a command between two awaits.

\* One pass of the loop over register_map, given the answer to its read.
StoreRead(raw, key, rd) ==
    IF rd.raised \/ IsErrorResponse(rd.response) THEN raw
    ELSE Merge([k \in {key} |->
                  IF rd.registers # <<>> THEN rd.registers[1] ELSE 0], raw)

\* what the climate entity and the profile select send
TaskInputs ==
    {inp \in ClimateInputs : AdapterCall(inp.adapter, inp.name, inp.temp).action # ""}
        \cup {AdapterInput("select_option", o, NoneV) :
                 o \in {o \in Options : ProfileId(o) # 0}}
TaskCall(d, inp) ==
    IF inp.adapter = "select_option" THEN SelectCall(d, ProfileId(inp.name))
    ELSE AdapterCall(inp.adapter, inp.name, inp.temp)

InitTasks ==
    /\ variant = "modbus"
    /\ host = AddressHost
    /\ resolved_host = [some |-> TRUE, host |-> AddressHost]
    /\ resolutions = 1
    /\ flow = NoFlow
    /\ entry = NoEntry
    /\ coordinator = "loaded"
    /\ update_interval = CoordinatorInit(DEFAULT_SCAN_INTERVAL)
    /\ device = InitDevice
    /\ modbus_client = "connected"
    /\ data = Merge(ReadAll("connected", device, [i \in 1..NumRegs |-> "ok"]),
                    ComputedFields)
    /\ last_update_success = TRUE
    /\ refresh_requested = FALSE
    /\ last = NoLast
    /\ ops = 0
    /\ faults = 0
    /\ tasks = NoTasks

\* _async_update_data up to its first await: the connected client is
\* returned at once and the first read is sent.  The framework starts a
\* refresh only when the previous one has ended.
PollStart ==
    /\ variant = "modbus"
    /\ ops < MaxOps
    /\ tasks.poll.pc = 0
    /\ modbus_client = "connected"
    /\ ~GetModbusClient(modbus_client, "connected").connect_called
    /\ tasks' = [tasks EXCEPT !.poll = [pc |-> 1, raw |-> EmptyRaw, reads |-> <<>>]]
    /\ ops' = ops + 1
    /\ UNCHANGED <<variant, device, modbus_client, data, last_update_success,
                   refresh_requested, last, faults>>
    /\ UNCHANGED setupVars
    /\ UNCHANGED hostVars

\* _async_update_data from the answer to one read to the next await, or to
\* its return after the last read.
PollRead ==
    /\ variant = "modbus"
    /\ tasks.poll.pc \in 1..NumRegs
    /\ \E o \in ReadChoices(TRUE, MaxFaults - faults) :
       \E i \in {tasks.poll.pc} :
       \E rd \in {ReadHoldingRegister(modbus_client, device, RegisterMap[i][1], o)} :
       \E raw \in {StoreRead(tasks.poll.raw, RegisterMap[i][2], rd)} :
       \E r \in {IF MissingRequired(raw)
                  THEN [exc |-> "UpdateFailed", data |-> NoData]
                  ELSE [exc |-> "none", data |-> Merge(raw, ComputedFields)]} :
          /\ faults' = faults + (IF o = "ok" THEN 0 ELSE 1)
          /\ IF i < NumRegs
             THEN /\ tasks' = [tasks EXCEPT !.poll =
                                 [pc |-> i + 1, raw |-> raw,
                                  reads |-> Append(tasks.poll.reads, o)]]
                  /\ UNCHANGED <<data, last_update_success, refresh_requested, last>>
             ELSE /\ tasks' = [tasks EXCEPT !.poll = NoTasks.poll]
                  /\ data' = Published(r, data)
                  /\ last_update_success' = (r.exc = "none")
                  /\ refresh_requested' = FALSE
                  /\ last' = [NoLast EXCEPT !.prev = Summary(last),
                                            !.op = "poll", !.exc = r.exc,
                                            !.connect = "connected",
                                            !.reads = Append(tasks.poll.reads, o)]
    /\ UNCHANGED <<variant, device, modbus_client, ops>>
    /\ UNCHANGED setupVars
    /\ UNCHANGED hostVars

\* the command has returned `result` to its adapter
CommandReturn(adapter, name, call, result, writes, responses) ==
    /\ refresh_requested' = AdapterRefresh(refresh_requested, result).pending
    /\ last' = [NoLast EXCEPT !.prev = Summary(last),
                              !.op = "adapter", !.option = adapter,
                              !.name = name,
                              !.action = call.action, !.value = call.value,
                              !.kwargs = call.kwargs, !.result = result,
                              !.connect = "connected",
                              !.writes = writes, !.responses = responses,
                              !.events = AdapterEvents(result)]

\* An adapter method up to the first await of async_send_command: the
\* connected client is returned at once and the first write is sent.
\* Nothing in the command looks at whether a poll is running.
CommandStart ==
    /\ variant = "modbus"
    /\ ops < MaxOps
    /\ data # NoData
    /\ tasks.cmd.pc = 0
    /\ modbus_client = "connected"
    /\ ~GetModbusClient(modbus_client, "connected").connect_called
    /\ \E inp \in TaskInputs :
       \E call \in {TaskCall(data, inp)} :
       \E plan \in {WritePlan(call.action, call.value, call.kwargs)} :
          IF plan = <<>> \/ ~PyInt(plan[1].arg).ok
          THEN /\ CommandReturn(inp.adapter, inp.name, call,
                                IF plan = <<>> THEN "False" ELSE CommandExcept,
                                <<>>, <<>>)
               /\ UNCHANGED tasks
          ELSE /\ tasks' = [tasks EXCEPT !.cmd =
                              [pc |-> 1, inp |-> inp, call |-> call,
                               writes |-> <<>>, responses |-> <<>>]]
               /\ UNCHANGED <<refresh_requested, last>>
    /\ ops' = ops + 1
    /\ UNCHANGED <<variant, device, modbus_client, data, last_update_success,
                   faults>>
    /\ UNCHANGED setupVars
    /\ UNCHANGED hostVars

\* async_send_command from the answer to one write to the next await, or to
\* its return.
CommandWrite ==
    /\ variant = "modbus"
    /\ tasks.cmd.pc > 0
    /\ \E o \in (IF faults < MaxFaults THEN WriteOutcomes ELSE {"ok"}) :
       \E i \in {tasks.cmd.pc} :
       \E call \in {tasks.cmd.call} :
       \E plan \in {WritePlan(call.action, call.value, call.kwargs)} :
       \E w \in {WriteRegister(modbus_client, device, plan[i].addr,
                                PyInt(plan[i].arg).n, o)} :
       \E writes \in {Append(tasks.cmd.writes,
                              <<plan[i].addr, PyInt(plan[i].arg).n>>)} :
       \E responses \in {IF w.raised THEN tasks.cmd.responses
                          ELSE Append(tasks.cmd.responses, w.response)} :
          /\ faults' = faults + (IF o = "ok" THEN 0 ELSE 1)
          /\ device' = w.dev
          /\ IF ~w.raised /\ i < Len(plan) /\ PyInt(plan[i + 1].arg).ok
             THEN /\ tasks' = [tasks EXCEPT !.cmd.pc = i + 1,
                                            !.cmd.writes = writes,
                                            !.cmd.responses = responses]
                  /\ UNCHANGED <<refresh_requested, last>>
             ELSE /\ tasks' = [tasks EXCEPT !.cmd = NoTasks.cmd]
                  /\ CommandReturn(tasks.cmd.inp.adapter,
                                   tasks.cmd.inp.name, call,
                                   IF w.raised \/ i < Len(plan) THEN CommandExcept
                                   ELSE IF IsErrorResponse(w.response)
                                        THEN "False" ELSE "True",
                                   writes, responses)
    /\ UNCHANGED <<variant, modbus_client, data, last_update_success, ops>>
    /\ UNCHANGED setupVars
    /\ UNCHANGED hostVars

NextTasks ==
    \/ PollStart
    \/ PollRead
    \/ CommandStart
    \/ CommandWrite

SpecTasks == InitTasks /\ [][NextTasks]_vars

NextCodec ==
    \/ SessionTimeValue
    \/ SelectOption

SpecCodec == InitCodec /\ [][NextCodec]_vars

---------------------------------------------------------------------------
(* The setup specification: from no entry to a loaded coordinator *)

InitSetup ==
    /\ variant = "setup"
    /\ host = <<>>
    /\ resolved_host = NoResolved
    /\ resolutions = 0
    /\ flow = NoFlow
    /\ entry = NoEntry
    /\ coordinator = "none"
    /\ update_interval = 0
    /\ device = InitDevice
    /\ modbus_client = "None"
    /\ data = NoData
    /\ last_update_success = TRUE
    /\ refresh_requested = FALSE
    /\ last = NoLast
    /\ ops = 0
    /\ faults = 0
    /\ tasks = NoTasks

runtimeVars == <<variant, device, modbus_client, data, last_update_success,
                 refresh_requested, last, ops, faults, host, resolved_host,
                 resolutions>>

\* async_step_manual with no user input: the form is shown.
ManualShowForm ==
    /\ variant = "setup"
    /\ flow' = [NoFlow EXCEPT !.step = "form"]
    /\ UNCHANGED <<entry, coordinator, update_interval>>
    /\ UNCHANGED runtimeVars
    /\ UNCHANGED tasks

\* async_step_manual with user input: validate_input, then the form with an
\* error, an abort when the host is configured already, or the entry.
ManualSubmit ==
    /\ variant = "setup"
    /\ \E user_host \in Hosts, scan_interval \in ScanIntervals :
       \E rv \in ResolverChoices(EndsWith(user_host, DotLocal), MaxFaults - faults) :
       \E c \in ConnectChoices("None", MaxFaults - faults - ResolveFault(rv)) :
       \E r20 \in ReadChoices(c = "connected",
                              MaxFaults - faults - ResolveFault(rv)) :
       \E r2 \in ReadChoices(c = "connected" /\ r20 = "ok",
                             MaxFaults - faults - ResolveFault(rv)) :
       \E rh \in {ConfigResolveHost(user_host, rv[1], rv[2])} :
       \E exc \in {ValidateInput(c, r20, r2)} :
       \E seen \in {[NoFlow EXCEPT !.connect = c, !.read20 = r20, !.read2 = r2,
                                   !.host = user_host, !.resolved = rh.host,
                                   !.resolver_calls = rh.calls, !.answer = rv]} :
          /\ ScanIntervalValid(scan_interval)
          /\ entry = NoEntry \/ entry.host = user_host
          /\ c # "connected" => (r20 = "ok" /\ r2 = "ok")
          /\ r20 # "ok" => r2 = "ok"
          /\ faults + ResolveFault(rv) + ConnectFault(c) + NFaults(<<r20, r2>>)
                <= MaxFaults
          /\ faults' = faults + ResolveFault(rv) + ConnectFault(c)
                          + NFaults(<<r20, r2>>)
          /\ IF exc # "none"
             THEN /\ flow' = [seen EXCEPT !.step = "form",
                                          !.errors = ManualErrors(exc)]
                  /\ UNCHANGED entry
             ELSE IF entry # NoEntry
             THEN /\ flow' = [seen EXCEPT !.step = "abort"]
                  /\ UNCHANGED entry
             ELSE /\ flow' = [seen EXCEPT !.step = "create_entry"]
                  /\ entry' = [host |-> user_host, scan_interval |-> scan_interval]
    /\ UNCHANGED <<coordinator, update_interval, tasks>>
    /\ UNCHANGED <<variant, device, modbus_client, data, last_update_success,
                   refresh_requested, last, ops>>
    /\ UNCHANGED hostVars

\* async_setup_entry: the coordinator is built and refreshed once; a failed
\* first refresh raises ConfigEntryNotReady and the coordinator is dropped.
SetupEntry ==
    /\ variant = "setup"
    /\ entry # NoEntry
    /\ coordinator # "loaded"
    /\ \E rv \in ResolverChoices(ResolverAsked("None", NoResolved, entry.host),
                                 MaxFaults - faults) :
       \E h \in {ClientHost("None", NoResolved, entry.host, rv[1], rv[2])} :
       \E c \in ConnectChoices("None", MaxFaults - faults - ResolveFault(rv)) :
       \E o \in ReadSeqs[MaxFaults - faults - ResolveFault(rv) - ConnectFault(c)] :
       \E r \in {ModbusUpdateData("None", device, c, o)} :
          /\ r.client # "connected" => NFaults(o) = 0
          /\ faults' = faults + NFaults(o) + ConnectFault(c) + ResolveFault(rv)
          /\ host' = entry.host
          /\ resolved_host' = h.cache
          /\ resolutions' = IF h.ran THEN 1 ELSE 0
          /\ update_interval' = SetupEntryInterval(entry)
          /\ data' = Published(r, NoData)
          /\ last_update_success' = (r.exc = "none")
          /\ modbus_client' = r.client
          /\ coordinator' = IF r.exc = "none" THEN "loaded" ELSE "not_ready"
          /\ last' = [NoLast EXCEPT !.prev = Summary(last),
                                    !.op = "poll", !.exc = r.exc, !.connect = c,
                                    !.created = GetModbusClient("None", c).created,
                                    !.connect_called = GetModbusClient("None", c).connect_called,
                                    !.resolve = [ran |-> h.ran, calls |-> h.calls,
                                                 answer |-> rv],
                                    !.reads = IF c # "raise"
                                              THEN [i \in 1..NumRegs |->
                                                     IF r.client = "connected"
                                                     THEN o[i] ELSE "raise"]
                                              ELSE <<>>]
    /\ UNCHANGED <<variant, device, refresh_requested, ops, flow, entry, tasks>>

\* async_unload_entry of a loaded entry.
UnloadEntry ==
    /\ variant = "setup"
    /\ coordinator = "loaded"
    /\ \E unload_ok \in BOOLEAN :
       \E r \in {AsyncUnloadEntry(modbus_client, unload_ok)} :
          /\ coordinator' = r.coordinator
          /\ modbus_client' = r.client
          /\ last' = [NoLast EXCEPT !.prev = Summary(last),
                                    !.op = "unload", !.result = r.result]
    /\ UNCHANGED <<variant, device, data, last_update_success,
                   refresh_requested, ops, faults, flow, entry,
                   update_interval, tasks>>
    /\ UNCHANGED hostVars

NextSetup ==
    \/ ManualShowForm
    \/ ManualSubmit
    \/ SetupEntry
    \/ UnloadEntry

SpecSetup == InitSetup /\ [][NextSetup]_vars

---------------------------------------------------------------------------
(* Properties *)

\* the step is a poll / a command of the running coordinator
PollStep == ops' = ops + 1 /\ last'.op = "poll"

\* position of a key in the register map
RegIndex(key) == CHOOSE i \in 1..NumRegs : RegisterMap[i][2] = key

\* The read of `key` in the poll recorded in l gave no value: it raised,
\* answered with an error, or was never attempted.
Unread(l, key) ==
    l.reads = <<>> \/ l.reads[RegIndex(key)] \in {"raise", "exception_response", "is_error"}

\* C1: under the Modbus variant a poll that returns a snapshot returns one
\* holding controllerStatus and actualTemp; a poll in which one of the two
\* could not be read raises UpdateFailed, and coordinator.data after it is
\* what it was before.
C1_RequiredOrFailed ==
    [][(variant = "modbus" /\ PollStep) =>
          /\ last'.exc = "none" =>
                (data' # NoData /\ RequiredKeys \subseteq DOMAIN data')
          /\ (\E k \in RequiredKeys : Unread(last', k)) =>
                (last'.exc = "UpdateFailed" /\ data' = data
                 /\ ~last_update_success')]_vars

\* a poll failed for an unread required field while a snapshot was published
C1_Witness ==
    /\ variant = "modbus"
    /\ last.op = "poll"
    /\ last.exc = "UpdateFailed"
    /\ last.reads # <<>>
    /\ last.connect = "connected"
    /\ Unread(last, "actualTemp")
    /\ data # NoData
    /\ RequiredKeys \subseteq DOMAIN data

\* C2 (as claimed): under the HTTP variant a poll answered with a status
\* other than 200, or with a JSON body lacking controllerStatus or
\* actualTemp, raises UpdateFailed, and a command answered with a status
\* other than 200 or a body lacking the success flag returns false.
C2_HttpMissingKeysFail ==
    (variant = "http" /\ last.op \in {"poll", "cmd"} /\ last.http[1] = "ok") =>
        /\ (last.op = "poll"
            /\ (\/ last.http[2] # 200
                \/ (last.http[3].json
                    /\ ~(RequiredKeys \subseteq DOMAIN last.http[3].obj))))
              => last.exc = "UpdateFailed"
        /\ (last.op = "cmd"
            /\ (\/ last.http[2] # 200
                \/ (last.http[3].json
                    /\ "success" \notin DOMAIN last.http[3].obj)))
              => last.result = "False"

\* The poll recorded in l had no transport, or lost it at a required field.
PollTransportFailed(l) ==
    \/ TransportDown(l)
    \/ (l.reads # <<>> /\ \E k \in RequiredKeys : l.reads[RegIndex(k)] = "raise")

CommandError(l) ==
    \/ TransportDown(l)
    \/ \E i \in 1..Len(l.responses) :
          l.responses[i] \in {"none", "exception_response", "is_error"}
    \/ (l.http # <<>> /\ (l.http[2] # 200 \/ ~l.http[3].json))

\* C4 (as claimed): send_command returns True or False, and False whenever
\* a transport or protocol error occurred, in both variants.
C4_CommandErrorIsFalse ==
    last.op \in {"cmd", "select"} /\ last.action # "" =>
        /\ last.result \in {"True", "False"}
        /\ CommandError(last) => last.result = "False"

\* The command recorded in l was answered normally throughout.
NoFault(l) ==
    /\ l.connect = "connected"
    /\ \A i \in 1..Len(l.responses) : l.responses[i] = "ok"

\* C5 (as claimed): start_session called with profile=2, temperature=80 and
\* session_time="01:00" writes duration, profile 2, temperature 80, aroma 0,
\* humidity 0 and then status 1, in that order and nothing after it.
C5_StartSessionWrites ==
    (variant = "modbus" /\ last.op = "cmd" /\ last.action = "start_session"
     /\ last.kwargs = SessionKwargs /\ NoFault(last)) =>
        /\ Len(last.writes) = 6
        /\ [i \in 1..6 |-> last.writes[i][1]] = <<5, 4, 1, 9, 10, 20>>
        /\ last.writes[2][2] = 2
        /\ last.writes[3][2] = 80
        /\ last.writes[4][2] = 0
        /\ last.writes[5][2] = 0
        /\ last.writes[6][2] = 1

\* C6 (as claimed): under the Modbus variant a command one of whose writes
\* is answered with an exception response or an error-flagged response
\* returns false.
C6_ErrorResponseIsFalse ==
    (variant = "modbus" /\ last.op \in {"cmd", "select"}
     /\ \E i \in 1..Len(last.responses) :
           IsErrorResponse(last.responses[i])) =>
        last.result = "False"

\* C7 (as claimed): selecting a valid profile on a device that accepts every
\* write succeeds, leaves the device with that profile and status HEAT, and
\* requests a refresh.
C7_SelectStartsSession ==
    (variant = "modbus" /\ last.op = "select" /\ ProfileId(last.option) # 0
     /\ NoFault(last)) =>
        /\ last.result = "True"
        /\ device[4] = ProfileId(last.option)
        /\ device[20] = 1
        /\ refresh_requested

\* the snapshot key and register of a single-field action
FieldOf(action) ==
    CASE action = "set_temp" -> "setTemp"
      [] action = "set_profile" -> "profile"
      [] action = "set_controller_status" -> "controllerStatus"

\* C8: after set_temp, set_profile or set_controller_status with value v
\* has returned true, the next poll that publishes a snapshot and reads the
\* field's register normally reports v in setTemp, profile or
\* controllerStatus.
C8_WriteThenPollReadsBack ==
    (variant = "modbus" /\ last.op = "poll" /\ last.exc = "none"
     /\ last.prev.op = "cmd" /\ last.prev.result = "True"
     /\ last.prev.action \in {"set_temp", "set_profile", "set_controller_status"}
     /\ last.reads[RegIndex(FieldOf(last.prev.action))] = "ok") =>
        data[FieldOf(last.prev.action)] = PyInt(last.prev.value).n

\* set_controller_status 1 is read back as controllerStatus 1 by the next poll
C8_Witness ==
    /\ variant = "modbus"
    /\ last.op = "poll"
    /\ last.exc = "none"
    /\ last.prev.op = "cmd"
    /\ last.prev.action = "set_controller_status"
    /\ last.prev.value = IntV(1)
    /\ last.prev.result = "True"
    /\ last.reads[RegIndex("controllerStatus")] = "ok"
    /\ data["controllerStatus"] = 1

\* C9 (as claimed): the update interval of the coordinator created for a
\* config entry is the scan interval stored in the entry.
C9_IntervalFromEntry ==
    (variant = "setup" /\ coordinator = "loaded") =>
        update_interval = entry.scan_interval

\* C10 (as claimed): the manual step reports invalid_data when the
\* connection and the read of register 20 succeed but the response carries
\* no register data, and cannot_connect when there is no connection or the
\* read is answered with a Modbus error.
C10_DistinguishableErrors ==
    (variant = "setup" /\ flow.step = "form" /\ flow.connect # "none") =>
        /\ (flow.connect = "connected" /\ flow.read20 = "empty")
              => flow.errors = "invalid_data"
        /\ (flow.connect # "connected"
            \/ flow.read20 \in {"exception_response", "is_error", "raise"})
              => flow.errors = "cannot_connect"

\* C11 (as claimed): the manual step creates the entry only when the reads
\* of register 20 and of register 2 both gave a value during validation.
C11_AcceptedOnlyWithBothReads ==
    (variant = "setup" /\ flow.step = "create_entry") =>
        (flow.read20 = "ok" /\ flow.read2 = "ok")

\* C12 (as claimed): once the entry is unloaded and its coordinator dropped,
\* the Modbus client the coordinator owned is closed.
C12_UnloadReleasesClient ==
    (variant = "setup" /\ coordinator = "unloaded") =>
        modbus_client \in {"None", "closed"}

\* the step is a command or an adapter method that sent a command
CommandStep ==
    /\ ops' = ops + 1
    /\ last'.op \in {"cmd", "adapter", "select"}
    /\ last'.action # ""

\* C13: under the Modbus variant a command whose action has no register
\* (light, aux, any unknown action) returns False, writes nothing and leaves
\* the device as it is; the switch method that sent it requests no refresh.
C13_UnsupportedActionNoWrite ==
    [][(variant = "modbus" /\ CommandStep /\ last'.action \notin ModbusActions) =>
          /\ last'.result = "False"
          /\ last'.writes = <<>>
          /\ device' = device
          /\ last'.op = "adapter" =>
                (/\ refresh_requested' = refresh_requested
                 /\ last'.events = <<"async_send_command">>)]_vars

\* a switch was turned on or off on a connected Modbus coordinator
C13_Witness ==
    /\ variant = "modbus"
    /\ last.op = "adapter"
    /\ last.action \in {"light", "aux"}
    /\ last.connect = "connected"
    /\ last.result = "False"
    /\ last.writes = <<>>
    /\ ~refresh_requested

\* the duration of a raw time value as the claimed codec renders it
ClaimedTimeStr(x) ==
    LET total == IF x >= 100 THEN ((x \div 100) * 60) + (x % 100) ELSE x
    IN  Format02d(total \div 60) \o <<":">> \o Format02d(total % 60)

\* C14 (as claimed): the raw time value x is decoded as x // 100 hours and
\* x % 100 minutes when x >= 100 and as x minutes otherwise, and the
\* session start sends the decoded duration as zero-padded HH:MM, so that
\* raw 90 and raw 130 both give "01:30".
C14_TimeCodec ==
    /\ last.op = "sensor" =>
          last.value = IntV(IF data["sessionTime"] >= 100
                            THEN ((data["sessionTime"] \div 100) * 60)
                                 + (data["sessionTime"] % 100)
                            ELSE data["sessionTime"])
    /\ (last.op = "select" /\ last.action = "start_session") =>
          last.kwargs["session_time"] = StrV(ClaimedTimeStr(data["sessionTime"]))

\* neither resolver call resolves the name
Unresolvable(answer) == answer[1] # "ok" /\ answer[2] # "ok"

\* C15: host resolution gives a literal IPv4 address back unchanged without
\* a resolver call, and gives a .local name that neither resolver call
\* resolves back unchanged as well, the operation going on with it; this
\* holds for the coordinator and for the config flow.
C15_LiteralAndFallback ==
    /\ (variant = "setup" /\ last.op = "poll" /\ last.resolve.ran) =>
          /\ resolved_host.some
          /\ InetAton(host) =>
                (resolved_host.host = host /\ last.resolve.calls = 0)
          /\ (EndsWith(host, DotLocal) /\ ~InetAton(host)
              /\ Unresolvable(last.resolve.answer)) =>
                (/\ resolved_host.host = host
                 /\ last.connect # "none"
                 /\ (last.connect = "connected"
                     /\ \A i \in 1..NumRegs : last.reads[i] = "ok")
                       => last.exc = "none")
    /\ (variant = "setup" /\ flow.host # <<>>) =>
          /\ InetAton(flow.host) =>
                (flow.resolved = flow.host /\ flow.resolver_calls = 0)
          /\ (EndsWith(flow.host, DotLocal) /\ Unresolvable(flow.answer)) =>
                (/\ flow.resolved = flow.host
                 /\ (flow.connect = "connected" /\ flow.read20 = "ok"
                     /\ flow.read2 = "ok")
                       => flow.step \in {"create_entry", "abort"})

\* the coordinator of an entry for a .local name that does not resolve went
\* on with the name and finished its first refresh
C15_Witness ==
    /\ variant = "setup"
    /\ coordinator = "loaded"
    /\ host = DEFAULT_HOST
    /\ last.op = "poll"
    /\ last.resolve.ran
    /\ last.resolve.calls = 2
    /\ Unresolvable(last.resolve.answer)
    /\ resolved_host = [some |-> TRUE, host |-> DEFAULT_HOST]
    /\ last.exc = "none"

\* C16: _resolve_host_sync runs at most once for a coordinator, and once a
\* result is cached, the fallback included, no later poll, command or
\* adapter call changes or recomputes it.
C16_ResolvedOnce ==
    [][/\ resolutions' <= 1
       /\ resolved_host.some =>
             (resolved_host' = resolved_host /\ resolutions' = resolutions)]_vars

\* a second operation ran on the cached fallback of a name that did not
\* resolve
C16_Witness ==
    /\ variant = "modbus"
    /\ host = DEFAULT_HOST
    /\ resolved_host = [some |-> TRUE, host |-> DEFAULT_HOST]
    /\ resolutions = 1
    /\ ops = 2
    /\ last.op \in {"poll", "cmd"}
    /\ ~last.resolve.ran
    /\ last.prev.op \in {"poll", "cmd"}

\* C17: an adapter method that sends a command requests a refresh exactly
\* when the command returned True, and after the command; a method that
\* returns without a command requests none.
C17_RefreshIffSuccess ==
    [][(ops' = ops + 1 /\ last'.op \in {"adapter", "select"}) =>
          /\ (last'.action # "" /\ last'.result = "True") =>
                (/\ last'.events = <<"async_send_command", "async_request_refresh">>
                 /\ refresh_requested')
          /\ (last'.action # "" /\ last'.result # "True") =>
                (/\ last'.events = <<"async_send_command">>
                 /\ refresh_requested' = refresh_requested)
          /\ last'.action = "" =>
                (/\ last'.events = <<>>
                 /\ refresh_requested' = refresh_requested)]_vars

\* a climate method succeeded and its refresh is pending
C17_Witness ==
    /\ last.op = "adapter"
    /\ last.option = "set_hvac_mode"
    /\ last.result = "True"
    /\ last.events = <<"async_send_command", "async_request_refresh">>
    /\ refresh_requested

\* C18 (as claimed): under the HTTP variant the form of a command holds
\* action, str(value) and every keyword argument, whatever the action.
C18_FormCarriesParams ==
    (variant = "http" /\ last.op \in {"cmd", "adapter"}) =>
        /\ DOMAIN last.post = {"action", "value"} \cup DOMAIN last.kwargs
        /\ last.post["action"] = <<last.action>>
        /\ last.post["value"] = PyStr(last.value)
        /\ \A k \in DOMAIN last.kwargs : last.post[k] = PyStr(last.kwargs[k])

\* reads that leave their field out of the snapshot
FailedReads == {"raise", "exception_response", "is_error"}

\* C19: in a Modbus poll in which controllerStatus and actualTemp are read,
\* the poll succeeds whatever the other reads do, and the snapshot holds
\* exactly the fields whose read did not fail, with the value read.
C19_IndependentReads ==
    (variant = "modbus" /\ last.op = "poll" /\ last.reads # <<>>
     /\ \A k \in RequiredKeys : ~Unread(last, k)) =>
        /\ last.exc = "none"
        /\ last_update_success
        /\ \A i \in 1..NumRegs :
              /\ (RegisterMap[i][2] \in DOMAIN data) <=> (last.reads[i] \notin FailedReads)
              /\ last.reads[i] = "ok" => data[RegisterMap[i][2]] = device[RegisterMap[i][1]]

\* a poll published a snapshot without the one field whose read raised
C19_Witness ==
    /\ variant = "modbus"
    /\ last.op = "poll"
    /\ last.exc = "none"
    /\ last.reads # <<>>
    /\ last.reads[RegIndex("sessionTime")] = "raise"
    /\ "sessionTime" \notin DOMAIN data
    /\ \A k \in Keys \ {"sessionTime"} : k \in DOMAIN data

\* the register addresses of start_session, in the order they are written
StartSessionAddrs == <<5, 4, 1, 9, 10, 20>>

\* C20: when the k-th write of start_session raises, the command returns
\* False, the k-1 writes before it are the only ones the device took, they
\* stay in effect, and no write comes after the k-th.
C20_StartSessionNotRolledBack ==
    [][(variant = "modbus" /\ CommandStep /\ last'.action = "start_session"
        /\ \E k \in 1..Len(last'.responses) : last'.responses[k] = "none") =>
          LET k == CHOOSE j \in 1..Len(last'.responses) : last'.responses[j] = "none"
              taken == {i \in 1..(k - 1) : last'.responses[i] = "ok"}
          IN  /\ last'.result = "False"
              /\ Len(last'.writes) = k
              /\ \A i \in 1..k : last'.writes[i][1] = StartSessionAddrs[i]
              /\ \A i \in taken : device'[last'.writes[i][1]] = last'.writes[i][2]
              /\ \A a \in Addrs \ {last'.writes[i][1] : i \in taken} :
                    device'[a] = device[a]]_vars

\* the fourth write of a session start raised: duration, profile and
\* temperature are set, the status is still off
C20_Witness ==
    /\ variant = "modbus"
    /\ last.op = "cmd"
    /\ last.action = "start_session"
    /\ last.result = "False"
    /\ Len(last.writes) = 4
    /\ last.responses = <<"ok", "ok", "ok", "none">>
    /\ device[5] = 1800
    /\ device[4] = 2
    /\ device[1] = 80
    /\ device[20] = 0

\* the register of a single-field action
SingleFieldAddr(action) ==
    CASE action = "set_temp" -> 1
      [] action = "set_profile" -> 4
      [] action = "stop_session" -> 20
      [] action = "set_controller_status" -> 20

\* C21: under the Modbus variant set_temp, set_profile, stop_session and
\* set_controller_status issue at most one write, to register 1, 4, 20 and
\* 20, and leave every other register as it was; a command that returns
\* True issued exactly that write, with the given value (0 for
\* stop_session), and the device holds it.
C21_SingleFieldFrame ==
    [][(variant = "modbus" /\ CommandStep
        /\ last'.action \in {"set_temp", "set_profile", "stop_session",
                              "set_controller_status"}) =>
          LET addr == SingleFieldAddr(last'.action)
              v == IF last'.action = "stop_session" THEN 0
                   ELSE PyInt(last'.value).n
          IN  /\ Len(last'.writes) <= 1
              /\ \A i \in 1..Len(last'.writes) : last'.writes[i] = <<addr, v>>
              /\ \A a \in Addrs \ {addr} : device'[a] = device[a]
              /\ last'.result = "True" =>
                    (last'.writes = << <<addr, v>> >> /\ device'[addr] = v)]_vars

\* set_profile 2 was written to register 4 of a device whose status is off
C21_Witness ==
    /\ variant = "modbus"
    /\ last.op = "cmd"
    /\ last.action = "set_profile"
    /\ last.result = "True"
    /\ last.writes = << <<4, 2>> >>
    /\ device[4] = 2
    /\ device[20] = 0

\* C25: in a Modbus poll that publishes, a field is in the snapshot exactly
\* when its read returned a response that is neither an exception response
\* nor error-flagged; a response without registers publishes the field as
\* 0, and a poll whose two required fields were read with such responses,
\* empty ones included, publishes.
C25_PresentIffReadReturned ==
    (variant = "modbus" /\ last.op = "poll" /\ last.reads # <<>>) =>
        /\ last.exc = "none" =>
              \A i \in 1..NumRegs :
                 /\ (RegisterMap[i][2] \in DOMAIN data)
                       <=> (last.reads[i] \in {"ok", "empty"})
                 /\ last.reads[i] = "empty" => data[RegisterMap[i][2]] = 0
        /\ (\A k \in RequiredKeys : last.reads[RegIndex(k)] \in {"ok", "empty"})
              => last.exc = "none"

\* a poll published actualTemp 0 for a response without registers
C25_Witness ==
    /\ variant = "modbus"
    /\ last.op = "poll"
    /\ last.exc = "none"
    /\ last.reads # <<>>
    /\ last.reads[RegIndex("actualTemp")] = "empty"
    /\ data # NoData
    /\ data["actualTemp"] = 0

\* a step of a Modbus poll or command, which begins with _get_modbus_client
ModbusCallStep == variant = "modbus" /\ last' # last /\ last'.connect # "none"

\* C22: a Modbus coordinator has no client before its first poll or
\* command, creates one at the first of them and never another one: every
\* later poll and command finds the client attribute set, whatever failed
\* in between.
C22_OneClient ==
    /\ [](variant = "modbus" => (modbus_client = "None" <=> last.op = "none"))
    /\ [][ModbusCallStep =>
            /\ last'.created <=> last.op = "none"
            /\ modbus_client' # "None"]_vars
    /\ [][modbus_client # "None" => modbus_client' # "None"]_vars

\* a poll after an operation whose connect() failed used the client that
\* operation had created
C22_Witness ==
    /\ variant = "modbus"
    /\ last.op = "poll"
    /\ last.prev.op \in {"poll", "cmd"}
    /\ last.prev.down
    /\ ~last.created
    /\ last.connect_called
    /\ modbus_client = "connected"

\* C23: a Modbus poll or command awaits connect() before its first
\* register operation exactly when it finds the client not connected; a
\* poll that finds the client disconnected, gets the connection and reads
\* every register publishes a snapshot, with the client it already had.
C23_ConnectWhenDisconnected ==
    [][ModbusCallStep =>
          /\ last'.connect_called <=> modbus_client # "connected"
          /\ (/\ modbus_client = "disconnected"
              /\ last'.op = "poll"
              /\ last'.connect = "connected"
              /\ last'.reads = [i \in 1..NumRegs |-> "ok"]) =>
                 /\ last'.exc = "none"
                 /\ last_update_success'
                 /\ \A i \in 1..NumRegs :
                       data'[RegisterMap[i][2]] = device[RegisterMap[i][1]]
                 /\ ~last'.created
                 /\ modbus_client' = "connected"]_vars

\* a poll succeeded, the connection was lost, and the next poll connected
\* again and succeeded
C23_Witness ==
    /\ variant = "modbus"
    /\ last.op = "poll"
    /\ last.prev.op = "poll"
    /\ last.prev.exc = "none"
    /\ last.connect_called
    /\ ~last.created
    /\ last.exc = "none"
    /\ last_update_success
    /\ modbus_client = "connected"

\* the status value the claim gives each mode
ClaimedStatus(m) ==
    CASE m = "off" -> 0 [] m = "heat" -> 1 [] m = "fan_only" -> 2 [] m = "auto" -> 3

\* C26: set_hvac_mode(m) sends set_controller_status with 0, 1, 2, 3 for
\* OFF, HEAT, FAN_ONLY, AUTO and a command that succeeds leaves that value
\* in register 20; a poll that reads every register publishes whatever
\* controllerStatus the device holds, also outside 0..3; and hvac_mode of a
\* snapshot is the mode whose value controllerStatus is, OFF outside 0..3.
C26_ModeRoundTrip ==
    /\ [](last.op = "hvac_mode" =>
            \/ /\ data["controllerStatus"] \notin 0..3
               /\ last.option = "off"
            \/ /\ data["controllerStatus"] \in 0..3
               /\ last.option \in {"off", "heat", "fan_only", "auto"}
               /\ ClaimedStatus(last.option) = data["controllerStatus"])
    /\ [][(last' # last /\ last'.op = "adapter"
           /\ last'.option = "set_hvac_mode") =>
            /\ last'.action = "set_controller_status"
            /\ last'.value = IntV(ClaimedStatus(last'.name))
            /\ last'.result = "True" =>
                 /\ last'.writes = << <<20, ClaimedStatus(last'.name)>> >>
                 /\ device'[20] = ClaimedStatus(last'.name)]_vars
    /\ [][(last' # last /\ last'.op = "poll"
           /\ last'.reads = [i \in 1..NumRegs |-> "ok"]) =>
            /\ last'.exc = "none"
            /\ data'["controllerStatus"] = device[20]]_vars

\* from a device that reported a status outside 0..3, FAN_ONLY was set,
\* polled and read back
C26_Witness ==
    /\ last.op = "hvac_mode"
    /\ last.option = "fan_only"
    /\ last.prev.op = "poll"
    /\ last.prev.exc = "none"
    /\ device[20] = 2
    /\ data["controllerStatus"] = 2

\* a status outside 0..3 was published by a poll and read back as OFF
C26_WitnessOutside ==
    /\ last.op = "hvac_mode"
    /\ last.option = "off"
    /\ last.prev.op = "poll"
    /\ last.prev.exc = "none"
    /\ data["controllerStatus"] > 3

\* C24: a poll and a command of one coordinator are never both between
\* their first register operation and their return: a command sends no
\* write while a poll awaits a read, and no poll starts while a command
\* awaits a write.
C24_PollAndCommandExclusive ==
    ~(tasks.poll.pc > 0 /\ tasks.cmd.pc > 0)

=============================================================================
